---- MODULE Spec2Model ----
(***************************************************************************)
(* Per-guild playback engine of the discord music bot:                     *)
(*   src/guild_state.py       GuildState (queue, loop task, prefetch)      *)
(*   src/cogs/playback_cog.py PlaybackManager (enqueue, leave, seek, ...)  *)
(*   src/utils.py             Song                                         *)
(*                                                                         *)
(* One GuildState object is followed through its whole life: created on    *)
(* first reference, registered in PlaybackManager.guild_states, possibly   *)
(* popped by leave while coroutines that still hold it are suspended.      *)
(* Every coroutine runs atomically between two awaits that really suspend  *)
(* (asyncio's cooperative scheduling); each such segment is one action.    *)
(***************************************************************************)
EXTENDS Integers, Sequences, FiniteSets, TLC

\* ---------------------------------------------------------------- bounds
\* Songs ever put in the queue of the guild (enqueued ones and seek clones).
MaxSongs == 3
GuildSongs == 2
OtherSongs == 1

\* ------------------------------------------------------------- constants
None == 0
NoSeek == -1
Channels == {1}
SeekSeconds == {90}
TwoChannels == {1, 2}
Guilds == {1, 2}

VARIABLES
    songs,                      \* Song objects by identity, numbered as they enter the queue
    guild_states,               \* TRUE iff the registry maps the guild to this state
    queue,                      \* GuildState.queue (sequence of song ids)
    voice_client,               \* "None", or a handle: "connected" / "disconnected"
    current_song,               \* GuildState.current_song (None or song id)
    playback_task,              \* GuildState.playback_task (None or task id)
    announcement_channel_id,    \* GuildState.announcement_channel_id
    next_song_event,            \* GuildState.next_song_event is set
    prefetch_task,              \* GuildState._prefetch_task
    suppress_next_announcement, \* attribute written by seek
    loops,                      \* live _playback_loop tasks: task id -> position
    playing,                    \* the voice client's player: None or the song it plays
    callbacks,                  \* _song_finished_callback calls scheduled, not yet run
    connecting,                 \* coroutines suspended in channel.connect() (one at a time)
    stopping,                   \* leave's stop() is suspended in voice_client.disconnect()
    seeking,                    \* seek is suspended in ctx.send before voice_client.stop()
    skipping,                   \* skip / clearskip suspended in ctx.send before stop()
    dequeued,                   \* history: songs in the order the loop took them
    started,                    \* history: songs whose voice_client.play() succeeded
    now_playing,                \* history: songs announced as "Now playing"
    skipped,                    \* history: songs announced as "Could not play"
    idle_stopped,               \* history: the idle timeout stopped the loop, no enqueue since
    revived,                    \* history: the song of the first enqueue after that stop
    stream_writes,              \* history: per song, who assigned its stream_url, in order
    ctx_guild,                  \* the guild whose GuildState the variables above describe
    others,                     \* the GuildState of every other guild, as a record
    last                        \* history: what the last step did

vars == <<songs, guild_states, queue, voice_client, current_song, playback_task,
          announcement_channel_id, next_song_event, prefetch_task,
          suppress_next_announcement, loops, playing, callbacks, connecting,
          stopping, seeking, skipping, dequeued, started, now_playing, skipped, idle_stopped,
          revived, stream_writes, ctx_guild, others, last>>

guild_vars == <<ctx_guild, others>>

idle_vars == <<idle_stopped, revived>>

state_vars == <<queue, voice_client, current_song, playback_task,
                announcement_channel_id, next_song_event, prefetch_task,
                suppress_next_announcement>>

hist_vars == <<dequeued, started, now_playing, skipped>>

\* ------------------------------------------------------------------ Song
\* utils.Song as the cogs build it.  title and requester are carried by the
\* id of the song the user asked for; ffmpeg_options is the pair of strings
\* before_options (-ss offset, reconnect flags) and options (filter chain).
RemoteSong(t) ==
    [title |-> t, source_url |-> "yt", stream_url |-> "none",
     is_tts |-> FALSE, is_local |-> FALSE,
     ffmpeg_options |-> [ss |-> NoSeek, reconnect |-> TRUE, options |-> "-vn"]]

LocalSong(t) ==
    [title |-> t, source_url |-> "", stream_url |-> "file",
     is_tts |-> FALSE, is_local |-> TRUE,
     ffmpeg_options |-> [ss |-> NoSeek, reconnect |-> FALSE, options |-> "-vn -filter:a"]]

TtsSong(t) ==
    [title |-> t, source_url |-> "", stream_url |-> "file",
     is_tts |-> TRUE, is_local |-> FALSE,
     ffmpeg_options |-> [ss |-> NoSeek, reconnect |-> FALSE, options |-> "-vn"]]

\* The Song a cog hands to enqueue, titled t.
NewSong(kind, t) ==
    IF kind = "remote" THEN RemoteSong(t)
    ELSE IF kind = "local" THEN LocalSong(t)
    ELSE TtsSong(t)

Kinds == {"remote", "local"}

NextId == Len(songs) + 1

\* ------------------------------------------------------------------ Init
\* A guild no command has referenced yet: no registry entry, and the
\* fields GuildState.__init__ will give its state.
Unborn ==
    [songs |-> <<>>, guild_states |-> FALSE, queue |-> <<>>, voice_client |-> "None",
     current_song |-> None, playback_task |-> None, announcement_channel_id |-> None,
     next_song_event |-> FALSE, prefetch_task |-> [st |-> "None", song |-> None],
     suppress_next_announcement |-> FALSE, loops |-> <<>>, playing |-> None,
     callbacks |-> 0, connecting |-> {}, stopping |-> FALSE, seeking |-> FALSE,
     skipping |-> {}, dequeued |-> <<>>, started |-> {}, now_playing |-> {},
     skipped |-> {}, idle_stopped |-> FALSE, revived |-> None, stream_writes |-> <<>>,
     last |-> "init"]

\* GuildState.__init__
Init ==
    /\ songs = <<>>
    /\ guild_states = FALSE
    /\ queue = <<>>
    /\ voice_client = "None"
    /\ current_song = None
    /\ playback_task = None
    /\ announcement_channel_id = None
    /\ next_song_event = FALSE
    /\ prefetch_task = [st |-> "None", song |-> None]
    /\ suppress_next_announcement = FALSE
    /\ loops = <<>>
    /\ playing = None
    /\ callbacks = 0
    /\ connecting = {}
    /\ stopping = FALSE
    /\ seeking = FALSE
    /\ skipping = {}
    /\ dequeued = <<>>
    /\ started = {}
    /\ now_playing = {}
    /\ skipped = {}
    /\ last = "init"
    /\ idle_stopped = FALSE
    /\ revived = None
    /\ stream_writes = <<>>
    /\ ctx_guild = 1
    /\ others = [g \in Guilds \ {1} |-> Unborn]

\* --------------------------------------------------------------- helpers
Range(f) == {f[x] : x \in DOMAIN f}

\* asyncio.Task.done(): the task is no longer among the live ones.
TaskDone(t) == t \notin DOMAIN loops

\* The task id create_task hands out: the first one no live task holds.
NewTask == CHOOSE t \in 1..(Cardinality(DOMAIN loops) + 1) : t \notin DOMAIN loops

At(t, pc) == t \in DOMAIN loops /\ loops[t].pc = pc

Goto(t, pc, s) == [loops EXCEPT ![t] = [pc |-> pc, song |-> s, err |-> "-"]]

\* guild_state.py:66-71: in the handler, suspended in the send of line 71;
\* err remembers which statement raised.
Handler(t, s, err) == [loops EXCEPT ![t] = [pc |-> "errsend", song |-> s, err |-> err]]

Exit(t) == [u \in DOMAIN loops \ {t} |-> loops[u]]

\* asyncio.Queue.put / put_nowait: append and wake a getter blocked in get().
WakeGetters(l) ==
    [u \in DOMAIN l |-> IF l[u].pc = "blocked" THEN [l[u] EXCEPT !.pc = "get"] ELSE l[u]]

\* The record of an assignment to song.stream_url by the loop ("L",
\* guild_state.py:48) or by the prefetch task ("P", guild_state.py:122).
WriteLog(s, by) ==
    IF s \in DOMAIN stream_writes
    THEN [stream_writes EXCEPT ![s] = Append(@, by)]
    ELSE (s :> <<by>>) @@ stream_writes

\* discord.VoiceClient.is_playing / is_connected
IsPlaying == playing # None
IsConnected == voice_client = "connected"

\* ---------------------------------------------------- GuildState: the loop
\* Mutant of start_playback: the check of line 83 is missing.
start_playback_unchecked(channel_id, l) ==
    LET t == NewTask IN
    <<channel_id, t, (t :> [pc |-> "top", song |-> None, err |-> "-"]) @@ l>>

\* GuildState.start_playback: the new values of
\* <<announcement_channel_id, playback_task, loops>>.
start_playback(channel_id, l) ==
    IF playback_task = None \/ TaskDone(playback_task)
    THEN LET t == NewTask IN
         <<channel_id, t, (t :> [pc |-> "top", song |-> None, err |-> "-"]) @@ l>>
    ELSE <<announcement_channel_id, playback_task, l>>

\* guild_state.py:50-54: build the source and call voice_client.play, which
\* raises when the handle is gone, not connected, or already playing; the
\* exception lands in the handler of line 66, which sends the error message.
PlayOrFail(t, s) ==
    IF voice_client = "connected" /\ ~IsPlaying
    THEN /\ playing' = s
         /\ started' = started \cup {s}
         /\ loops' = Goto(t, "announcing", s)
    ELSE /\ UNCHANGED <<playing, started>>
         /\ loops' = Handler(t, s, "play")

\* guild_state.py:66-71: the handler formats self.current_song.title before it
\* sends; with current_song already None that raises inside the handler and
\* the task ends with the exception.
ExceptOrCrash(t, err) ==
    IF current_song = None
    THEN loops' = Exit(t) /\ last' = "crash_handler"
    ELSE loops' = Handler(t, current_song, err) /\ last' = "-"

\* guild_state.py:22-31: the task's first step, up to the queue.get of line 35.
LoopTop(t) ==
    /\ At(t, "top")
    /\ next_song_event' = FALSE
    /\ loops' = Goto(t, "get", None)
    /\ last' = "-"
    /\ UNCHANGED <<songs, guild_states, queue, voice_client, current_song, playback_task,
                   announcement_channel_id, prefetch_task, suppress_next_announcement,
                   playing, callbacks, connecting, stopping, seeking, hist_vars>>
    /\ UNCHANGED idle_vars
    /\ UNCHANGED skipping
    /\ UNCHANGED stream_writes
    /\ UNCHANGED guild_vars

\* guild_state.py:35-54: queue.get() returns the head, or blocks on an empty
\* queue; then the voice check, and either the resolver call or play.
LoopGet(t) ==
    /\ At(t, "get")
    /\ IF queue = <<>>
       THEN /\ loops' = Goto(t, "blocked", None)
            /\ last' = "-"
            /\ UNCHANGED <<queue, current_song, dequeued, playing, started>>
       ELSE LET s == Head(queue) IN
            /\ queue' = Tail(queue)
            /\ current_song' = s
            /\ dequeued' = Append(dequeued, s)
            /\ IF ~IsConnected
               THEN /\ loops' = Exit(t)
                    /\ last' = "-"
                    /\ UNCHANGED <<playing, started>>
               ELSE IF songs[s].stream_url = "none"
               THEN /\ loops' = Goto(t, "resolving", s)
                    /\ last' = "-"
                    /\ UNCHANGED <<playing, started>>
               ELSE /\ PlayOrFail(t, s)
                    /\ last' = "-"
    /\ UNCHANGED <<songs, guild_states, voice_client, playback_task,
                   announcement_channel_id, next_song_event, prefetch_task,
                   suppress_next_announcement, callbacks, connecting, stopping,
                   seeking, now_playing, skipped>>
    /\ UNCHANGED idle_vars
    /\ UNCHANGED skipping
    /\ UNCHANGED stream_writes
    /\ UNCHANGED guild_vars

\* guild_state.py:47-54: get_audio_source_url returned; the url is written to
\* whatever self.current_song is now, then play.
LoopResolved(t) ==
    /\ At(t, "resolving")
    /\ songs[loops[t].song].source_url # ""
    /\ IF current_song = None
       THEN /\ loops' = Exit(t)
            /\ last' = "crash_resolved"
            /\ UNCHANGED <<songs, playing, started, stream_writes>>
       ELSE /\ songs' = [songs EXCEPT ![current_song].stream_url = "L"]
            /\ stream_writes' = WriteLog(current_song, "L")
            /\ PlayOrFail(t, current_song)
            /\ last' = "-"
    /\ UNCHANGED <<guild_states, queue, voice_client, current_song, playback_task,
                   announcement_channel_id, next_song_event, prefetch_task,
                   suppress_next_announcement, callbacks, connecting, stopping,
                   seeking, dequeued, now_playing, skipped>>
    /\ UNCHANGED idle_vars
    /\ UNCHANGED skipping
    /\ UNCHANGED guild_vars

\* guild_state.py:47,66-71: get_audio_source_url raised.
LoopResolveFailed(t) ==
    /\ At(t, "resolving")
    /\ ExceptOrCrash(t, "resolve")
    /\ UNCHANGED <<songs, guild_states, queue, voice_client, current_song, playback_task,
                   announcement_channel_id, next_song_event, prefetch_task,
                   suppress_next_announcement, playing, callbacks, connecting,
                   stopping, seeking, hist_vars>>
    /\ UNCHANGED idle_vars
    /\ UNCHANGED skipping
    /\ UNCHANGED stream_writes
    /\ UNCHANGED guild_vars

NoPrefetch == [st |-> "None", song |-> None]

\* Mutant of _start_prefetch_next: the test of line 110 is missing.
start_prefetch_next_unchecked ==
    IF queue = <<>> THEN prefetch_task
    ELSE LET next_song == queue[1] IN
         IF songs[next_song].stream_url # "none" \/ songs[next_song].source_url = ""
         THEN prefetch_task
         ELSE [st |-> "running", song |-> next_song]

\* Mutant of _start_prefetch_next: line 116 does not look at stream_url.
start_prefetch_next_again ==
    IF prefetch_task.st = "running" THEN prefetch_task
    ELSE IF queue = <<>> THEN prefetch_task
    ELSE LET next_song == queue[1] IN
         IF songs[next_song].source_url = ""
         THEN prefetch_task
         ELSE [st |-> "running", song |-> next_song]

\* GuildState._start_prefetch_next: the new value of _prefetch_task.
start_prefetch_next ==
    IF prefetch_task.st = "running" THEN prefetch_task
    ELSE IF queue = <<>> THEN prefetch_task
    ELSE LET next_song == queue[1] IN
         IF songs[next_song].stream_url # "none" \/ songs[next_song].source_url = ""
         THEN prefetch_task
         ELSE [st |-> "running", song |-> next_song]

\* guild_state.py:59-64: the "Now playing" message was sent; start the
\* prefetch and wait for next_song_event.
LoopAnnounced(t) ==
    /\ At(t, "announcing")
    /\ now_playing' = now_playing \cup {loops[t].song}
    /\ prefetch_task' = start_prefetch_next
    /\ loops' = Goto(t, "waiting", loops[t].song)
    /\ last' = "-"
    /\ UNCHANGED <<songs, guild_states, queue, voice_client, current_song, playback_task,
                   announcement_channel_id, next_song_event, suppress_next_announcement,
                   playing, callbacks, connecting, stopping, seeking, dequeued, started,
                   skipped>>
    /\ UNCHANGED idle_vars
    /\ UNCHANGED skipping
    /\ UNCHANGED stream_writes
    /\ UNCHANGED guild_vars

\* guild_state.py:59,66-71: channel.send of the "Now playing" message raised
\* after play() had started the player.
LoopAnnounceFailed(t) ==
    /\ At(t, "announcing")
    /\ ExceptOrCrash(t, "announce")
    /\ UNCHANGED <<songs, guild_states, queue, voice_client, current_song, playback_task,
                   announcement_channel_id, next_song_event, prefetch_task,
                   suppress_next_announcement, playing, callbacks, connecting,
                   stopping, seeking, hist_vars>>
    /\ UNCHANGED idle_vars
    /\ UNCHANGED skipping
    /\ UNCHANGED stream_writes
    /\ UNCHANGED guild_vars

\* guild_state.py:64,30-31: next_song_event is set; next iteration.
LoopFinished(t) ==
    /\ At(t, "waiting")
    /\ next_song_event
    /\ next_song_event' = FALSE
    /\ loops' = Goto(t, "get", None)
    /\ last' = "-"
    /\ UNCHANGED <<songs, guild_states, queue, voice_client, current_song, playback_task,
                   announcement_channel_id, prefetch_task, suppress_next_announcement,
                   playing, callbacks, connecting, stopping, seeking, hist_vars>>
    /\ UNCHANGED idle_vars
    /\ UNCHANGED skipping
    /\ UNCHANGED stream_writes
    /\ UNCHANGED guild_vars

\* guild_state.py:71-72,30-31: the "Could not play" message was sent; the
\* handler calls _song_finished_callback itself and the loop iterates.
LoopErrSent(t) ==
    /\ At(t, "errsend")
    /\ skipped' = skipped \cup {loops[t].song}
    /\ current_song' = None
    /\ next_song_event' = FALSE
    /\ loops' = Goto(t, "get", None)
    /\ last' = "-"
    /\ UNCHANGED <<songs, guild_states, queue, voice_client, playback_task,
                   announcement_channel_id, prefetch_task, suppress_next_announcement,
                   playing, callbacks, connecting, stopping, seeking, dequeued, started,
                   now_playing>>
    /\ UNCHANGED idle_vars
    /\ UNCHANGED skipping
    /\ UNCHANGED stream_writes
    /\ UNCHANGED guild_vars

\* guild_state.py:71: channel.send raised inside the handler; nothing catches
\* it and the task ends.
LoopErrSendFailed(t) ==
    /\ At(t, "errsend")
    /\ loops' = Exit(t)
    /\ last' = "crash_errsend"
    /\ UNCHANGED <<songs, guild_states, queue, voice_client, current_song, playback_task,
                   announcement_channel_id, next_song_event, prefetch_task,
                   suppress_next_announcement, playing, callbacks, connecting,
                   stopping, seeking, hist_vars>>
    /\ UNCHANGED idle_vars
    /\ UNCHANGED skipping
    /\ UNCHANGED stream_writes
    /\ UNCHANGED guild_vars

\* GuildState._song_finished_callback, run by call_soon_threadsafe.
song_finished_callback ==
    /\ callbacks > 0
    /\ callbacks' = callbacks - 1
    /\ current_song' = None
    /\ next_song_event' = TRUE
    /\ last' = "-"
    /\ UNCHANGED <<songs, guild_states, queue, voice_client, playback_task,
                   announcement_channel_id, prefetch_task, suppress_next_announcement,
                   loops, playing, connecting, stopping, seeking, hist_vars>>
    /\ UNCHANGED idle_vars
    /\ UNCHANGED skipping
    /\ UNCHANGED stream_writes
    /\ UNCHANGED guild_vars

\* The player thread reaches the end of the stream and schedules the callback
\* given as after= (guild_state.py:54).
PlayerEnds ==
    /\ IsPlaying
    /\ playing' = None
    /\ callbacks' = callbacks + 1
    /\ last' = "-"
    /\ UNCHANGED <<songs, guild_states, state_vars, loops, connecting, stopping,
                   seeking, hist_vars>>
    /\ UNCHANGED idle_vars
    /\ UNCHANGED skipping
    /\ UNCHANGED stream_writes
    /\ UNCHANGED guild_vars

\* discord.VoiceClient.stop(): ends the player, whose thread then schedules the
\* after= callback.  The new value of callbacks.
StopPlayer == IF IsPlaying THEN callbacks + 1 ELSE callbacks

\* guild_state.py:119-125: the prefetch task got the url and writes it.
PrefetchResolved ==
    /\ prefetch_task.st = "running"
    /\ songs' = [songs EXCEPT ![prefetch_task.song].stream_url = "P"]
    /\ stream_writes' = WriteLog(prefetch_task.song, "P")
    /\ prefetch_task' = [st |-> "done", song |-> None]
    /\ last' = "-"
    /\ UNCHANGED <<guild_states, queue, voice_client, current_song, playback_task,
                   announcement_channel_id, next_song_event, suppress_next_announcement,
                   loops, playing, callbacks, connecting, stopping, seeking, hist_vars>>
    /\ UNCHANGED idle_vars
    /\ UNCHANGED skipping
    /\ UNCHANGED guild_vars

\* guild_state.py:123-125: the resolver raised in the prefetch task.
PrefetchFailed ==
    /\ prefetch_task.st = "running"
    /\ prefetch_task' = [st |-> "done", song |-> None]
    /\ last' = "-"
    /\ UNCHANGED <<songs, guild_states, queue, voice_client, current_song, playback_task,
                   announcement_channel_id, next_song_event, suppress_next_announcement,
                   loops, playing, callbacks, connecting, stopping, seeking, hist_vars>>
    /\ UNCHANGED idle_vars
    /\ UNCHANGED skipping
    /\ UNCHANGED stream_writes
    /\ UNCHANGED guild_vars

\* -------------------------------------------------------- GuildState.stop
\* guild_state.py:95-97: Task.cancel() on playback_task.  A task cancelled by
\* another coroutine is suspended at an await and gets CancelledError there,
\* which neither `except asyncio.TimeoutError` nor `except Exception` catches:
\* it runs no further statement of the loop.
CancelLoop(l) ==
    IF playback_task # None /\ playback_task \in DOMAIN l
    THEN [u \in DOMAIN l \ {playback_task} |-> l[u]]
    ELSE l

\* guild_state.py:36-38,87-106: wait_for timed out on the empty queue and the
\* loop calls stop() itself.  playback_task.cancel() then marks the running
\* task, so the first await that suspends, voice_client.disconnect() on a
\* connected handle (which stops the player and drops the connection before
\* it waits for the gateway), raises CancelledError and lines 101-106 are
\* not run.  disconnect() on a handle that is not connected returns at once.
LoopTimeout(t) ==
    /\ At(t, "blocked")
    /\ queue' = <<>>
    /\ playback_task' = None
    /\ IF voice_client = "connected" /\ playback_task = t
       THEN /\ voice_client' = "disconnected"
            /\ playing' = None
            /\ callbacks' = StopPlayer
            /\ loops' = Exit(t)
            /\ UNCHANGED <<current_song, prefetch_task>>
       ELSE /\ voice_client' = "None"
            /\ playing' = IF voice_client = "connected" THEN None ELSE playing
            /\ callbacks' = IF voice_client = "connected" THEN StopPlayer ELSE callbacks
            /\ current_song' = None
            /\ prefetch_task' = NoPrefetch
            /\ loops' = [u \in DOMAIN CancelLoop(loops) \ {t} |-> loops[u]]
    /\ last' = "LoopTimeout"
    /\ UNCHANGED <<songs, guild_states, announcement_channel_id, next_song_event,
                   suppress_next_announcement, connecting, stopping, seeking, hist_vars>>
    /\ idle_stopped' = TRUE
    /\ revived' = None
    /\ UNCHANGED skipping
    /\ UNCHANGED stream_writes
    /\ UNCHANGED guild_vars

\* ------------------------------------------------------- PlaybackManager
\* playback_cog.py:24-28 as the `queue` command runs it (playback_cog.py:90):
\* the first command for a guild without an entry allocates a GuildState.
\* Every handler below starts with the same call; a handler that finds no
\* entry behaves as this step followed by the handler.  A state popped by
\* leave is followed until the coroutines that still hold it have ended.
Quiescent ==
    /\ DOMAIN loops = {}
    /\ connecting = {}
    /\ ~stopping
    /\ ~seeking
    /\ skipping = {}
    /\ prefetch_task.st # "running"
    /\ callbacks = 0
    /\ playing = None

get_or_create_state ==
    /\ ~guild_states
    /\ Quiescent
    /\ guild_states' = TRUE
    /\ queue' = <<>>
    /\ voice_client' = "None"
    /\ current_song' = None
    /\ playback_task' = None
    /\ announcement_channel_id' = None
    /\ next_song_event' = FALSE
    /\ prefetch_task' = NoPrefetch
    /\ suppress_next_announcement' = FALSE
    /\ last' = "-"
    /\ UNCHANGED <<songs, loops, playing, callbacks, connecting, stopping, seeking,
                   hist_vars>>
    /\ idle_stopped' = FALSE
    /\ revived' = None
    /\ UNCHANGED skipping
    /\ UNCHANGED stream_writes
    /\ UNCHANGED guild_vars

\* Mutant of put: the item goes to the left end, as seek's appendleft does.
put_left(q, song) == <<song>> \o q

\* asyncio.Queue.put on the unbounded queue: the item goes to the right end.
put(q, song) == Append(q, song)

\* playback_cog.py:42-43: queue.put(song) and start_playback(ctx.channel.id).
PutAndStart(song, channel_id) ==
    LET sp == start_playback(channel_id, WakeGetters(loops)) IN
    /\ queue' = put(queue, song)
    /\ announcement_channel_id' = sp[1]
    /\ playback_task' = sp[2]
    /\ loops' = sp[3]

\* PlaybackManager.enqueue up to its first suspension: the whole call when a
\* connected handle exists, else up to channel.connect(), or the rejection.
enqueue(kind, channel_id, in_voice, limit) ==
    /\ guild_states
    /\ Len(songs) < limit
    /\ IF IsConnected
       THEN /\ songs' = Append(songs, NewSong(kind, NextId))
            /\ PutAndStart(NextId, channel_id)
            /\ last' = "enqueue"
            /\ UNCHANGED <<voice_client, connecting>>
       ELSE IF in_voice
       THEN /\ connecting = {}
            /\ connecting' = {[kind |-> kind, channel_id |-> channel_id]}
            /\ last' = "-"
            /\ UNCHANGED <<songs, queue, voice_client, announcement_channel_id,
                           playback_task, loops>>
       ELSE /\ last' = "enqueue_rejected"
            /\ UNCHANGED <<songs, queue, voice_client, announcement_channel_id,
                           playback_task, loops, connecting>>
    /\ UNCHANGED <<guild_states, current_song, next_song_event, prefetch_task,
                   suppress_next_announcement, playing, callbacks, stopping, seeking,
                   hist_vars>>
    /\ idle_stopped' = (idle_stopped /\ ~IsConnected)
    /\ revived' = IF idle_stopped /\ IsConnected THEN NextId ELSE revived
    /\ UNCHANGED skipping
    /\ UNCHANGED stream_writes
    /\ UNCHANGED guild_vars

\* playback_cog.py:37,42-44: connect() returned to a suspended enqueue.
enqueue_connected(c, limit) ==
    /\ c \in connecting
    /\ c.kind # "join"
    /\ Len(songs) < limit
    /\ connecting' = connecting \ {c}
    /\ voice_client' = "connected"
    /\ songs' = Append(songs, NewSong(c.kind, NextId))
    /\ PutAndStart(NextId, c.channel_id)
    /\ last' = "enqueue"
    /\ UNCHANGED <<guild_states, current_song, next_song_event, prefetch_task,
                   suppress_next_announcement, playing, callbacks, stopping, seeking,
                   hist_vars>>
    /\ idle_stopped' = FALSE
    /\ revived' = IF idle_stopped THEN NextId ELSE revived
    /\ UNCHANGED skipping
    /\ UNCHANGED stream_writes
    /\ UNCHANGED guild_vars

\* playback_cog.py:37,67: channel.connect() raises (the voice handshake
\* timed out, or the library already holds a handle for the guild); neither
\* caller catches it, so the command ends there.
connect_failed(c) ==
    /\ c \in connecting
    /\ connecting' = connecting \ {c}
    /\ last' = "-"
    /\ UNCHANGED <<songs, guild_states, state_vars, loops, playing, callbacks,
                   stopping, seeking, skipping, hist_vars, idle_vars>>
    /\ UNCHANGED stream_writes
    /\ UNCHANGED guild_vars

\* playback_cog.py:35-37: enqueue by a member who is in a voice channel,
\* called while another command is suspended in channel.connect().  The
\* handle is not connected yet, so this call runs connect() as well; the
\* library registered the first call's voice client for the guild before it
\* suspended and raises "Already connected to a voice channel." at once.
\* enqueue does not catch it: the command ends at line 37, before queue.put.
enqueue_raised ==
    /\ guild_states
    /\ ~IsConnected
    /\ connecting # {}
    /\ last' = "connect_raised"
    /\ UNCHANGED <<songs, guild_states, state_vars, loops, playing, callbacks,
                   connecting, stopping, seeking, skipping, hist_vars, idle_vars>>
    /\ UNCHANGED stream_writes
    /\ UNCHANGED guild_vars

\* PlaybackManager.join by a member who is in a voice channel: move_to on a
\* connected handle changes nothing here; otherwise it suspends in connect().
join ==
    /\ guild_states
    /\ ~IsConnected
    /\ connecting = {}
    /\ connecting' = {[kind |-> "join", channel_id |-> None]}
    /\ last' = "-"
    /\ UNCHANGED <<songs, guild_states, state_vars, loops, playing, callbacks,
                   stopping, seeking, hist_vars>>
    /\ UNCHANGED idle_vars
    /\ UNCHANGED skipping
    /\ UNCHANGED stream_writes
    /\ UNCHANGED guild_vars

\* playback_cog.py:67: connect() returned to a suspended join.
join_connected(c) ==
    /\ c \in connecting
    /\ c.kind = "join"
    /\ connecting' = connecting \ {c}
    /\ voice_client' = "connected"
    /\ last' = "-"
    /\ UNCHANGED <<songs, guild_states, queue, current_song, playback_task,
                   announcement_channel_id, next_song_event, prefetch_task,
                   suppress_next_announcement, loops, playing, callbacks, stopping,
                   seeking, hist_vars>>
    /\ UNCHANGED idle_vars
    /\ UNCHANGED skipping
    /\ UNCHANGED stream_writes
    /\ UNCHANGED guild_vars

\* The voice connection drops (kicked, moved out, network): the handle stays
\* in the state but is_connected() is false and the player ends.
ConnectionLost ==
    /\ IsConnected
    /\ voice_client' = "disconnected"
    /\ playing' = None
    /\ callbacks' = StopPlayer
    /\ last' = "-"
    /\ UNCHANGED <<songs, guild_states, queue, current_song, playback_task,
                   announcement_channel_id, next_song_event, prefetch_task,
                   suppress_next_announcement, loops, connecting, stopping, seeking,
                   hist_vars>>
    /\ revived' = None
    /\ UNCHANGED idle_stopped
    /\ UNCHANGED skipping
    /\ UNCHANGED stream_writes
    /\ UNCHANGED guild_vars

\* PlaybackManager.leave with a voice handle, through stop() (guild_state.py
\* 87-100) up to the await of disconnect(); with a handle that is not
\* connected disconnect() returns at once and stop() and the pop complete.
leave ==
    /\ guild_states
    /\ voice_client # "None"
    /\ queue' = <<>>
    /\ loops' = CancelLoop(loops)
    /\ playback_task' = None
    /\ IF IsConnected
       THEN /\ voice_client' = "disconnected"
            /\ playing' = None
            /\ callbacks' = StopPlayer
            /\ stopping' = TRUE
            /\ last' = "-"
            /\ UNCHANGED <<guild_states, current_song, prefetch_task>>
       ELSE /\ voice_client' = "None"
            /\ current_song' = None
            /\ prefetch_task' = NoPrefetch
            /\ guild_states' = FALSE
            /\ last' = "stop_returned"
            /\ UNCHANGED <<playing, callbacks, stopping>>
    /\ UNCHANGED <<songs, announcement_channel_id, next_song_event,
                   suppress_next_announcement, connecting, seeking, hist_vars>>
    /\ idle_stopped' = FALSE
    /\ revived' = None
    /\ UNCHANGED skipping
    /\ UNCHANGED stream_writes
    /\ UNCHANGED guild_vars

\* Mutant of stop_resumed: leave does not pop the entry.
stop_resumed_keeps ==
    /\ stopping
    /\ stopping' = FALSE
    /\ voice_client' = "None"
    /\ current_song' = None
    /\ prefetch_task' = NoPrefetch
    /\ last' = "stop_returned"
    /\ UNCHANGED <<songs, guild_states, queue, playback_task, announcement_channel_id,
                   next_song_event, suppress_next_announcement, loops, playing,
                   callbacks, connecting, seeking, hist_vars>>
    /\ UNCHANGED idle_vars
    /\ UNCHANGED skipping
    /\ UNCHANGED stream_writes
    /\ UNCHANGED guild_vars

\* guild_state.py:101-106 and playback_cog.py:74: disconnect() returned to
\* the stop() that leave awaits; stop() finishes and leave pops the entry.
stop_resumed ==
    /\ stopping
    /\ stopping' = FALSE
    /\ voice_client' = "None"
    /\ current_song' = None
    /\ prefetch_task' = NoPrefetch
    /\ guild_states' = FALSE
    /\ last' = "stop_returned"
    /\ UNCHANGED <<songs, queue, playback_task, announcement_channel_id,
                   next_song_event, suppress_next_announcement, loops, playing,
                   callbacks, connecting, seeking, hist_vars>>
    /\ UNCHANGED idle_vars
    /\ UNCHANGED skipping
    /\ UNCHANGED stream_writes
    /\ UNCHANGED guild_vars

\* playback_cog.py:176-199: the Song that seek builds from the current one.
SeekSong(current, seconds) ==
    LET is_remote == ~current.is_local /\ ~current.is_tts IN
    [title |-> current.title,
     source_url |-> current.source_url,
     stream_url |-> "none",
     is_tts |-> current.is_tts,
     is_local |-> current.is_local,
     ffmpeg_options |-> [ss |-> seconds, reconnect |-> is_remote,
                         options |-> current.ffmpeg_options.options]]

\* PlaybackManager.seek with a position that parses to `seconds`, up to the
\* ctx.send of line 208 (player active) or to its end (line 213).  The clone
\* goes to the left end of the deque behind asyncio.Queue, which wakes nobody.
seek(seconds, limit) ==
    /\ guild_states
    /\ IsConnected
    /\ current_song # None
    /\ Len(songs) < limit
    /\ ~seeking
    /\ songs' = Append(songs, SeekSong(songs[current_song], seconds))
    /\ queue' = <<NextId>> \o queue
    /\ seeking' = IsPlaying
    /\ last' = IF IsPlaying THEN "seek" ELSE "seek_queued"
    /\ UNCHANGED <<guild_states, voice_client, current_song, playback_task,
                   announcement_channel_id, next_song_event, prefetch_task,
                   suppress_next_announcement, loops, playing, callbacks, connecting,
                   stopping, hist_vars>>
    /\ UNCHANGED idle_vars
    /\ UNCHANGED skipping
    /\ UNCHANGED stream_writes
    /\ UNCHANGED guild_vars

\* playback_cog.py:210-211: the "Seeking to" message was sent.
seek_sent ==
    /\ seeking
    /\ seeking' = FALSE
    /\ suppress_next_announcement' = TRUE
    /\ IF voice_client # "None"
       THEN playing' = None /\ callbacks' = StopPlayer
       ELSE UNCHANGED <<playing, callbacks>>
    /\ last' = "seek_sent"
    /\ UNCHANGED <<songs, guild_states, queue, voice_client, current_song, playback_task,
                   announcement_channel_id, next_song_event, prefetch_task, loops,
                   connecting, stopping, hist_vars>>
    /\ UNCHANGED idle_vars
    /\ UNCHANGED skipping
    /\ UNCHANGED stream_writes
    /\ UNCHANGED guild_vars

\* ------------------------------------------------- seek: the position
\* One colon-separated part of the position string: a number (val is its
\* integer part, frac tells that it was written with a decimal point) or
\* something that is no number.
\* One colon-separated part of a position string: an integer literal n, a
\* decimal literal between n and n + 1 (val is what int(float(part)) gives),
\* or text that is no number.
Num(n) == [num |-> TRUE, frac |-> FALSE, val |-> n]
Frac(n) == [num |-> TRUE, frac |-> TRUE, val |-> n]
NotNum == [num |-> FALSE, frac |-> FALSE, val |-> 0]

\* int(part): raises for a part that is no integer literal.
IsInt(part) == part.num /\ ~part.frac

Max0(n) == IF n < 0 THEN 0 ELSE n

\* playback_cog.py:157-170
parse_timestamp(ts) ==
    IF Len(ts) = 1
    THEN IF ts[1].num THEN Max0(ts[1].val) ELSE -1
    ELSE IF Len(ts) = 2
    THEN IF IsInt(ts[1]) /\ IsInt(ts[2])
         THEN Max0(ts[1].val * 60 + ts[2].val) ELSE -1
    ELSE IF Len(ts) = 3
    THEN IF IsInt(ts[1]) /\ IsInt(ts[2]) /\ IsInt(ts[3])
         THEN Max0(ts[1].val * 3600 + ts[2].val * 60 + ts[3].val) ELSE -1
    ELSE -1

\* The position strings the seek command is given: "1:30", "0:01:30",
\* "90.5", "-5", "-1:30", "abc", "1:xx" and "1:2:3:4".
Positions ==
    { <<Num(1), Num(30)>>, <<Num(0), Num(1), Num(30)>>, <<Frac(90)>>,
      <<Num(-5)>>, <<Num(-1), Num(30)>>,
      <<NotNum>>, <<Num(1), NotNum>>, <<Num(1), Num(2), Num(3), Num(4)>> }

\* playback_cog.py:153-154: seek without a connected handle or without a
\* current song answers "Nothing is playing to seek." and returns.
seek_rejected ==
    /\ guild_states
    /\ ~(IsConnected /\ current_song # None)
    /\ last' = "seek_rejected"
    /\ UNCHANGED <<songs, guild_states, state_vars, loops, playing, callbacks,
                   connecting, stopping, seeking, skipping, hist_vars, idle_vars>>
    /\ UNCHANGED stream_writes
    /\ UNCHANGED guild_vars

\* playback_cog.py:172-174: the position does not parse.
seek_invalid(position) ==
    /\ guild_states
    /\ IsConnected /\ current_song # None
    /\ parse_timestamp(position) < 0
    /\ last' = "seek_invalid"
    /\ UNCHANGED <<songs, guild_states, state_vars, loops, playing, callbacks,
                   connecting, stopping, seeking, skipping, hist_vars, idle_vars>>
    /\ UNCHANGED stream_writes
    /\ UNCHANGED guild_vars

\* playback_cog.py:172-213: the position parses and seek goes on.
seek_position(position, limit) ==
    /\ parse_timestamp(position) >= 0
    /\ seek(parse_timestamp(position), limit)

\* ------------------------------------------------ skip, clear, clearskip
\* PlaybackManager.skip up to its ctx.send: the report names current_song as
\* it is when the message is formatted; stop() comes after the send.
skip ==
    /\ guild_states
    /\ IF voice_client # "None" /\ IsPlaying
       THEN /\ skipping = {}
            /\ skipping' = {[cmd |-> "skip", song |-> current_song]}
            /\ last' = "-"
       ELSE /\ last' = "skip_nothing"
            /\ UNCHANGED skipping
    /\ UNCHANGED <<songs, guild_states, state_vars, loops, playing, callbacks,
                   connecting, stopping, seeking, hist_vars, idle_vars>>
    /\ UNCHANGED stream_writes
    /\ UNCHANGED guild_vars

\* Mutant of skip_sent: the stop also cancels the loop task, as stop() does.
skip_sent_cancels(c) ==
    /\ c \in skipping
    /\ c.cmd = "skip"
    /\ skipping' = {}
    /\ playing' = None
    /\ callbacks' = StopPlayer
    /\ loops' = CancelLoop(loops)
    /\ last' = "skip_sent"
    /\ UNCHANGED <<songs, guild_states, state_vars, connecting, stopping,
                   seeking, hist_vars, idle_vars>>
    /\ UNCHANGED stream_writes
    /\ UNCHANGED guild_vars

\* playback_cog.py:84: the report was sent; voice_client.stop() on whatever
\* the handle plays now (an AttributeError when the handle is gone).
skip_sent(c) ==
    /\ c \in skipping
    /\ c.cmd = "skip"
    /\ skipping' = {}
    /\ IF voice_client # "None"
       THEN playing' = None /\ callbacks' = StopPlayer
       ELSE UNCHANGED <<playing, callbacks>>
    /\ last' = "skip_sent"
    /\ UNCHANGED <<songs, guild_states, state_vars, loops, connecting, stopping,
                   seeking, hist_vars, idle_vars>>
    /\ UNCHANGED stream_writes
    /\ UNCHANGED guild_vars

\* Mutant of clear: a single get_nowait, which removes the head only.
clear_head ==
    /\ guild_states
    /\ queue' = IF queue = <<>> THEN queue ELSE Tail(queue)
    /\ last' = "clear"
    /\ UNCHANGED <<songs, guild_states, voice_client, current_song, playback_task,
                   announcement_channel_id, next_song_event, prefetch_task,
                   suppress_next_announcement, loops, playing, callbacks,
                   connecting, stopping, seeking, skipping, hist_vars, idle_vars>>
    /\ UNCHANGED stream_writes
    /\ UNCHANGED guild_vars

\* PlaybackManager.clear: get_nowait until the queue is empty, then the
\* report; on an empty queue only the report.
clear ==
    /\ guild_states
    /\ queue' = IF queue = <<>> THEN queue ELSE <<>>
    /\ last' = "clear"
    /\ UNCHANGED <<songs, guild_states, voice_client, current_song, playback_task,
                   announcement_channel_id, next_song_event, prefetch_task,
                   suppress_next_announcement, loops, playing, callbacks,
                   connecting, stopping, seeking, skipping, hist_vars, idle_vars>>
    /\ UNCHANGED stream_writes
    /\ UNCHANGED guild_vars

\* Mutant of clearskip: the drain loop is left after one get_nowait.
clearskip_head ==
    /\ guild_states
    /\ queue' = IF queue = <<>> THEN queue ELSE Tail(queue)
    /\ IF voice_client # "None" /\ IsPlaying
       THEN /\ skipping = {}
            /\ skipping' = {[cmd |-> "clearskip", song |-> current_song]}
       ELSE UNCHANGED skipping
    /\ last' = "clearskip"
    /\ UNCHANGED <<songs, guild_states, voice_client, current_song, playback_task,
                   announcement_channel_id, next_song_event, prefetch_task,
                   suppress_next_announcement, loops, playing, callbacks,
                   connecting, stopping, seeking, hist_vars, idle_vars>>
    /\ UNCHANGED stream_writes
    /\ UNCHANGED guild_vars

\* PlaybackManager.clearskip up to its ctx.send (player active) or to its
\* end: the queue is drained first, without an await in between.
clearskip ==
    /\ guild_states
    /\ queue' = <<>>
    /\ IF voice_client # "None" /\ IsPlaying
       THEN /\ skipping = {}
            /\ skipping' = {[cmd |-> "clearskip", song |-> current_song]}
       ELSE UNCHANGED skipping
    /\ last' = "clearskip"
    /\ UNCHANGED <<songs, guild_states, voice_client, current_song, playback_task,
                   announcement_channel_id, next_song_event, prefetch_task,
                   suppress_next_announcement, loops, playing, callbacks,
                   connecting, stopping, seeking, hist_vars, idle_vars>>
    /\ UNCHANGED stream_writes
    /\ UNCHANGED guild_vars

\* playback_cog.py:142: the combined report was sent; voice_client.stop().
clearskip_sent(c) ==
    /\ c \in skipping
    /\ c.cmd = "clearskip"
    /\ skipping' = {}
    /\ IF voice_client # "None"
       THEN playing' = None /\ callbacks' = StopPlayer
       ELSE UNCHANGED <<playing, callbacks>>
    /\ last' = "-"
    /\ UNCHANGED <<songs, guild_states, state_vars, loops, connecting, stopping,
                   seeking, hist_vars, idle_vars>>
    /\ UNCHANGED stream_writes
    /\ UNCHANGED guild_vars

\* ------------------------------------------------------------------ Next
Next ==
    \/ \E t \in DOMAIN loops : LoopTop(t)
    \/ \E t \in DOMAIN loops : LoopGet(t)
    \/ \E t \in DOMAIN loops : LoopResolved(t)
    \/ \E t \in DOMAIN loops : LoopResolveFailed(t)
    \/ \E t \in DOMAIN loops : LoopAnnounced(t)
    \/ \E t \in DOMAIN loops : LoopAnnounceFailed(t)
    \/ \E t \in DOMAIN loops : LoopFinished(t)
    \/ \E t \in DOMAIN loops : LoopErrSent(t)
    \/ \E t \in DOMAIN loops : LoopErrSendFailed(t)
    \/ \E t \in DOMAIN loops : LoopTimeout(t)
    \/ song_finished_callback
    \/ PlayerEnds
    \/ PrefetchResolved
    \/ PrefetchFailed
    \/ ConnectionLost
    \/ get_or_create_state
    \/ \E kind \in Kinds, channel_id \in Channels, in_voice \in BOOLEAN :
           enqueue(kind, channel_id, in_voice, MaxSongs)
    \/ \E c \in connecting : enqueue_connected(c, MaxSongs)
    \/ join
    \/ \E c \in connecting : join_connected(c)
    \/ \E c \in connecting : connect_failed(c)
    \/ leave
    \/ stop_resumed
    \/ \E seconds \in SeekSeconds : seek(seconds, MaxSongs)
    \/ seek_sent

Spec == Init /\ [][Next]_vars

\* The engine under every command of PlaybackManager and every position
\* string, in a guild where nobody leaves, the connection holds while a loop
\* runs and every message is delivered.
CmdNext ==
    \/ \E t \in DOMAIN loops : LoopTop(t)
    \/ \E t \in DOMAIN loops : LoopGet(t)
    \/ \E t \in DOMAIN loops : LoopResolved(t)
    \/ \E t \in DOMAIN loops : LoopResolveFailed(t)
    \/ \E t \in DOMAIN loops : LoopAnnounced(t)
    \/ \E t \in DOMAIN loops : LoopFinished(t)
    \/ \E t \in DOMAIN loops : LoopErrSent(t)
    \/ \E t \in DOMAIN loops : LoopTimeout(t)
    \/ song_finished_callback
    \/ PlayerEnds
    \/ PrefetchResolved
    \/ PrefetchFailed
    \/ get_or_create_state
    \/ \E kind \in Kinds, channel_id \in Channels, in_voice \in BOOLEAN :
           enqueue(kind, channel_id, in_voice, MaxSongs)
    \/ \E c \in connecting : enqueue_connected(c, MaxSongs)
    \/ seek_rejected
    \/ \E position \in Positions : seek_invalid(position)
    \/ \E position \in Positions : seek_position(position, MaxSongs)
    \/ seek_sent
    \/ skip
    \/ \E c \in skipping : skip_sent(c)
    \/ clear
    \/ clearskip
    \/ \E c \in skipping : clearskip_sent(c)

CmdSpec == Init /\ [][CmdNext]_vars

\* CmdNext without the seek command: the queue commands over the engine.
QueueNext ==
    \/ \E t \in DOMAIN loops : LoopTop(t)
    \/ \E t \in DOMAIN loops : LoopGet(t)
    \/ \E t \in DOMAIN loops : LoopResolved(t)
    \/ \E t \in DOMAIN loops : LoopResolveFailed(t)
    \/ \E t \in DOMAIN loops : LoopAnnounced(t)
    \/ \E t \in DOMAIN loops : LoopFinished(t)
    \/ \E t \in DOMAIN loops : LoopErrSent(t)
    \/ \E t \in DOMAIN loops : LoopTimeout(t)
    \/ song_finished_callback
    \/ PlayerEnds
    \/ PrefetchResolved
    \/ PrefetchFailed
    \/ get_or_create_state
    \/ \E kind \in Kinds, channel_id \in Channels, in_voice \in BOOLEAN :
           enqueue(kind, channel_id, in_voice, MaxSongs)
    \/ \E c \in connecting : enqueue_connected(c, MaxSongs)
    \/ skip
    \/ \E c \in skipping : skip_sent(c)
    \/ clear
    \/ clearskip
    \/ \E c \in skipping : clearskip_sent(c)

QueueSpec == Init /\ [][QueueNext]_vars

\* QueueSpec under the scheduling the event loop gives: a task that can run
\* does run, a message being sent is delivered, the 300 s wait on the queue
\* expires, and the player reaches the end of its stream.
FairQueueSpec ==
    /\ QueueSpec
    /\ WF_vars(\E t \in DOMAIN loops :
                   \/ LoopTop(t) \/ LoopGet(t) \/ LoopResolved(t)
                   \/ LoopResolveFailed(t) \/ LoopAnnounced(t)
                   \/ LoopFinished(t) \/ LoopErrSent(t) \/ LoopTimeout(t))
    /\ WF_vars(song_finished_callback)
    /\ WF_vars(PlayerEnds)
    /\ WF_vars(\E c \in skipping : skip_sent(c) \/ clearskip_sent(c))

\* The engine with its failures under enqueue and seek, in a guild where the
\* voice connection, once made, is lost only by the idle timeout, and where
\* nobody clears, skips or leaves.
LiveNext ==
    \/ \E t \in DOMAIN loops : LoopTop(t)
    \/ \E t \in DOMAIN loops : LoopGet(t)
    \/ \E t \in DOMAIN loops : LoopResolved(t)
    \/ \E t \in DOMAIN loops : LoopResolveFailed(t)
    \/ \E t \in DOMAIN loops : LoopAnnounced(t)
    \/ \E t \in DOMAIN loops : LoopAnnounceFailed(t)
    \/ \E t \in DOMAIN loops : LoopFinished(t)
    \/ \E t \in DOMAIN loops : LoopErrSent(t)
    \/ \E t \in DOMAIN loops : LoopErrSendFailed(t)
    \/ \E t \in DOMAIN loops : LoopTimeout(t)
    \/ song_finished_callback
    \/ PlayerEnds
    \/ PrefetchResolved
    \/ PrefetchFailed
    \/ get_or_create_state
    \/ \E kind \in Kinds, channel_id \in Channels, in_voice \in BOOLEAN :
           enqueue(kind, channel_id, in_voice, MaxSongs)
    \/ \E c \in connecting : enqueue_connected(c, MaxSongs)
    \/ \E seconds \in SeekSeconds : seek(seconds, MaxSongs)
    \/ seek_sent

LiveSpec == Init /\ [][LiveNext]_vars

\* LiveSpec under the scheduling the event loop gives: a loop task that can
\* run does run, a resolver call and a send return (with either outcome),
\* the 300 s wait on the queue expires, a scheduled callback runs, and the
\* player reaches the end of its stream.
FairLiveSpec ==
    /\ LiveSpec
    /\ WF_vars(\E t \in DOMAIN loops :
                   \/ LoopTop(t) \/ LoopGet(t) \/ LoopResolved(t)
                   \/ LoopResolveFailed(t) \/ LoopAnnounced(t)
                   \/ LoopAnnounceFailed(t) \/ LoopFinished(t) \/ LoopErrSent(t)
                   \/ LoopErrSendFailed(t) \/ LoopTimeout(t))
    /\ WF_vars(song_finished_callback)
    /\ WF_vars(PlayerEnds)
    /\ WF_vars(PrefetchResolved \/ PrefetchFailed)
    /\ WF_vars(\E c \in connecting : enqueue_connected(c, MaxSongs))
    /\ WF_vars(seek_sent)

\* ------------------------------------------------------------ two guilds
\* The GuildState the variables describe, as a record.
ThisGuild ==
    [songs |-> songs, guild_states |-> guild_states, queue |-> queue,
     voice_client |-> voice_client, current_song |-> current_song,
     playback_task |-> playback_task,
     announcement_channel_id |-> announcement_channel_id,
     next_song_event |-> next_song_event, prefetch_task |-> prefetch_task,
     suppress_next_announcement |-> suppress_next_announcement, loops |-> loops,
     playing |-> playing, callbacks |-> callbacks, connecting |-> connecting,
     stopping |-> stopping, seeking |-> seeking, skipping |-> skipping,
     dequeued |-> dequeued, started |-> started, now_playing |-> now_playing,
     skipped |-> skipped, idle_stopped |-> idle_stopped, revived |-> revived,
     stream_writes |-> stream_writes, last |-> last]

\* Mutant of dispatch: the lookup ignores the guild id, so the guilds share
\* one GuildState.
dispatch_shared(g) ==
    /\ g \in Guilds \ {ctx_guild}
    /\ ctx_guild' = g
    /\ others' = [h \in Guilds \ {g} |-> ThisGuild]
    /\ UNCHANGED <<songs, guild_states, state_vars, loops, playing, callbacks,
                   connecting, stopping, seeking, skipping, hist_vars, idle_vars,
                   stream_writes, last>>

\* playback_cog.py:24-28: the next command or task step belongs to guild g.
\* The registry is keyed by guild.id and every handler works on the state it
\* returns, so from here on the variables describe g's GuildState, and the
\* state of the guild served until now is kept as it is.
dispatch(g) ==
    /\ g \in Guilds \ {ctx_guild}
    /\ ctx_guild' = g
    /\ others' = [h \in Guilds \ {g} |-> IF h = ctx_guild THEN ThisGuild ELSE others[h]]
    /\ songs' = others[g].songs
    /\ guild_states' = others[g].guild_states
    /\ queue' = others[g].queue
    /\ voice_client' = others[g].voice_client
    /\ current_song' = others[g].current_song
    /\ playback_task' = others[g].playback_task
    /\ announcement_channel_id' = others[g].announcement_channel_id
    /\ next_song_event' = others[g].next_song_event
    /\ prefetch_task' = others[g].prefetch_task
    /\ suppress_next_announcement' = others[g].suppress_next_announcement
    /\ loops' = others[g].loops
    /\ playing' = others[g].playing
    /\ callbacks' = others[g].callbacks
    /\ connecting' = others[g].connecting
    /\ stopping' = others[g].stopping
    /\ seeking' = others[g].seeking
    /\ skipping' = others[g].skipping
    /\ dequeued' = others[g].dequeued
    /\ started' = others[g].started
    /\ now_playing' = others[g].now_playing
    /\ skipped' = others[g].skipped
    /\ idle_stopped' = others[g].idle_stopped
    /\ revived' = others[g].revived
    /\ stream_writes' = others[g].stream_writes
    /\ last' = others[g].last

\* Songs ever put in the queue of guild g.
SongsOf(g) == IF g = 1 THEN GuildSongs ELSE OtherSongs

\* Two guilds, each with its own loop over local files, in an environment
\* where nothing fails but the resolver on a seek clone.  The members of
\* guild 1 use every command; those of guild 2 only enqueue.
GuildsNext ==
    \/ \E t \in DOMAIN loops : LoopTop(t)
    \/ \E t \in DOMAIN loops : LoopGet(t)
    \/ \E t \in DOMAIN loops : LoopResolveFailed(t)
    \/ \E t \in DOMAIN loops : LoopAnnounced(t)
    \/ \E t \in DOMAIN loops : LoopFinished(t)
    \/ \E t \in DOMAIN loops : LoopErrSent(t)
    \/ \E t \in DOMAIN loops : LoopTimeout(t)
    \/ song_finished_callback
    \/ PlayerEnds
    \/ get_or_create_state
    \/ \E channel_id \in Channels : enqueue("local", channel_id, TRUE, SongsOf(ctx_guild))
    \/ \E c \in connecting : enqueue_connected(c, SongsOf(ctx_guild))
    \/ ctx_guild = 1 /\ \E seconds \in SeekSeconds : seek(seconds, SongsOf(ctx_guild))
    \/ seek_sent
    \/ ctx_guild = 1 /\ skip
    \/ \E c \in skipping : skip_sent(c)
    \/ ctx_guild = 1 /\ clear
    \/ ctx_guild = 1 /\ clearskip
    \/ \E c \in skipping : clearskip_sent(c)
    \/ ctx_guild = 1 /\ leave
    \/ stop_resumed
    \/ \E g \in Guilds : dispatch(g)

GuildsSpec == Init /\ [][GuildsNext]_vars

\* Enqueues of local files from two text channels, and the loop that plays
\* them, in a guild where connect() may fail and nothing else does.
ChanNext ==
    \/ \E t \in DOMAIN loops : LoopTop(t)
    \/ \E t \in DOMAIN loops : LoopGet(t)
    \/ \E t \in DOMAIN loops : LoopAnnounced(t)
    \/ \E t \in DOMAIN loops : LoopFinished(t)
    \/ \E t \in DOMAIN loops : LoopTimeout(t)
    \/ song_finished_callback
    \/ PlayerEnds
    \/ get_or_create_state
    \/ \E channel_id \in TwoChannels, in_voice \in BOOLEAN :
           enqueue("local", channel_id, in_voice, MaxSongs)
    \/ \E c \in connecting : enqueue_connected(c, MaxSongs)
    \/ \E c \in connecting : connect_failed(c)
    \/ enqueue_raised

ChanSpec == Init /\ [][ChanNext]_vars

\* ---------------------------------------------------------------- claims
\* A seek-inserted clone carries a -ss start offset; no enqueued song does.
IsClone(s) == songs[s].ffmpeg_options.ss # NoSeek

Live == DOMAIN loops

\* C1: songs are numbered in the order they enter the queue.  Enqueued songs
\* become the current song in that order, and in the queue every
\* seek-inserted clone stands ahead of every enqueued song, so the loop, which
\* takes the head, takes a clone before any song that was already waiting.
C1_PlayOrder ==
    /\ \A i, j \in DOMAIN dequeued :
           (i < j /\ ~IsClone(dequeued[i]) /\ ~IsClone(dequeued[j]))
               => dequeued[i] < dequeued[j]
    /\ \A i, j \in DOMAIN queue :
           (IsClone(queue[i]) /\ ~IsClone(queue[j])) => i < j
    /\ \A i \in DOMAIN queue, j \in DOMAIN dequeued :
           ~IsClone(queue[i]) /\ ~IsClone(dequeued[j]) => dequeued[j] < queue[i]
    /\ \A i, j \in DOMAIN queue :
           (i < j /\ ~IsClone(queue[i]) /\ ~IsClone(queue[j])) => queue[i] < queue[j]
    /\ current_song # None => \E i \in DOMAIN dequeued : dequeued[i] = current_song

\* Two enqueued songs were played in the order of their enqueueing, and the
\* clone of the first, inserted by a seek while the second waited, was taken
\* between them.
C1_Witness ==
    /\ Len(dequeued) = 3
    /\ ~IsClone(dequeued[1]) /\ IsClone(dequeued[2]) /\ ~IsClone(dequeued[3])
    /\ dequeued[1] < dequeued[3]
    /\ {dequeued[1], dequeued[3]} \subseteq started

\* C2: at most one _playback_loop task is live, and an enqueue that finds a
\* live task starts none and leaves playback_task and the announcement
\* channel as they were.
C2_OneLoop ==
    /\ [](Cardinality(Live) <= 1)
    /\ [][(Live # {} /\ last' = "enqueue")
             => /\ DOMAIN loops' = Live
                /\ playback_task' = playback_task
                /\ announcement_channel_id' = announcement_channel_id]_vars

\* An enqueue was accepted while a loop, already past its first step, was live.
C2_Witness ==
    /\ last = "enqueue"
    /\ \E t \in Live : loops[t].pc \in {"announcing", "waiting", "resolving"}

\* C3: the loop takes the next song from the queue only when the player is
\* idle and the completion of the previous song has been delivered, also
\* after an error raised once play() had started the player.
C3_Sequential ==
    [][dequeued' # dequeued => (~IsPlaying /\ callbacks = 0)]_vars

\* C4: a loop that is handling a resolver failure for song N ends only by
\* being stopped, so that it goes on to the next song, and N, never started,
\* is reported as skipped without ever being announced as now playing.
C4_ResolveFailureSkips ==
    [][/\ \A t \in Live :
              (loops[t].pc = "errsend" /\ loops[t].err = "resolve"
                  /\ t \notin DOMAIN loops') => playback_task' = None
       /\ (skipped' \ started') \cap now_playing' = {}]_vars

\* C5: when the idle timeout path has run, no loop is live and the state
\* holds neither a voice handle nor a loop handle.
C5_IdleTimeoutTearsDown ==
    last = "LoopTimeout" =>
        /\ Live = {}
        /\ voice_client = "None"
        /\ playback_task = None

\* C6: the first enqueue after an idle timeout leaves a connected handle and
\* a live loop that it started, and that loop plays the enqueued song: it
\* does not end on that song, its address resolved, with the song unplayed.
C6_RevivedIsPlayed ==
    /\ (last = "enqueue" /\ revived = Len(songs))
           => (IsConnected /\ playback_task \in Live)
    /\ (revived # None /\ last = "crash_resolved" /\ dequeued # <<>>
            /\ dequeued[Len(dequeued)] = revived)
           => revived \in started

\* C7: once the stop() that leave called has returned, the state has no live
\* loop, no voice handle, no current song and no running prefetch.
C7_StopLeavesNothing ==
    last = "stop_returned" =>
        /\ Live = {}
        /\ playback_task = None
        /\ voice_client = "None"
        /\ current_song = None
        /\ prefetch_task.st # "running"

\* C8: the state the idle timeout path leaves is the state an explicit stop()
\* leaves: empty queue, no loop handle, no voice handle, no current song, and
\* the prefetch task cancelled and forgotten.
C8_TimeoutEqualsStop ==
    last = "LoopTimeout" =>
        /\ queue = <<>>
        /\ playback_task = None
        /\ voice_client = "None"
        /\ current_song = None
        /\ prefetch_task = NoPrefetch

\* C9: after seek on a playing song the head of the queue is a clone of the
\* current song with the start offset and the song's filter options; when
\* seek, no leave in between, has stopped the player nothing plays; and the
\* clone of a song that was playing is played when the loop takes it, not
\* reported as failed for want of a stream address (once a seek has found
\* the player active, which the flag it sets records, and in runs where
\* every started song was announced, so that the skip is not the aftermath
\* of another error).
C9_SeekRestartsClone ==
    /\ last = "seek" =>
           /\ queue # <<>>
           /\ IsClone(Head(queue))
           /\ songs[Head(queue)].title = songs[current_song].title
           /\ songs[Head(queue)].source_url = songs[current_song].source_url
           /\ songs[Head(queue)].is_local = songs[current_song].is_local
           /\ songs[Head(queue)].is_tts = songs[current_song].is_tts
           /\ songs[Head(queue)].ffmpeg_options.ss \in SeekSeconds
           /\ songs[Head(queue)].ffmpeg_options.options
                  = songs[current_song].ffmpeg_options.options
    /\ (last = "seek_sent" /\ guild_states) => ~IsPlaying
    /\ (suppress_next_announcement /\ started \subseteq now_playing)
           => \A s \in skipped :
                  (IsClone(s) /\ songs[s].title \in started) => songs[s].source_url # ""

\* C10: once seek has set suppress_next_announcement, the loop starts the
\* clone without a "Now playing" message: no clone is announced while the
\* flag is set (in runs where no song was reported as failed).
C10_SuppressedAnnouncement ==
    [][(suppress_next_announcement /\ skipped = {})
          => \A s \in now_playing' \ now_playing : ~IsClone(s)]_vars

\* C11: every song that seek has put in the queue can be played: it has a
\* stream address, or an origin locator from which the resolver gets one.
C11_ClonePlayable ==
    \A s \in DOMAIN songs :
        IsClone(s) => (songs[s].stream_url # "none" \/ songs[s].source_url # "")

\* C12: a seek whose position does not parse changes neither the queue, the
\* current song, the suppress flag nor the player, and a position with a
\* negative value is such a position: the offset of every clone is the value
\* (seconds, or 60 * MM + SS) of a position that is not negative.
C12_InvalidSeekChangesNothing ==
    /\ [][last' = "seek_invalid"
             => UNCHANGED <<songs, queue, current_song,
                            suppress_next_announcement, playing>>]_vars
    /\ [](\A s \in DOMAIN songs :
              IsClone(s) =>
                  \E p \in Positions :
                      LET value == IF Len(p) = 1 THEN p[1].val
                                   ELSE p[1].val * 60 + p[2].val
                      IN  /\ \A i \in DOMAIN p : IsInt(p[i])
                          /\ Len(p) <= 2
                          /\ value >= 0
                          /\ songs[s].ffmpeg_options.ss = value)

\* C13: no seek is rejected while the player is idle; such a seek puts its
\* clone at the head of the queue and stops nothing.
C13_IdleSeekQueued ==
    /\ last = "seek_rejected" => IsPlaying
    /\ last = "seek_queued" =>
           /\ ~seeking
           /\ queue # <<>> /\ IsClone(Head(queue))

\* C14: when skip, its report sent, stops the player, the song it stops is
\* the song the report named; and a skip that finds nothing playing changes
\* nothing.
C14_SkipStopsReported ==
    [][/\ \A c \in skipping :
              (c.cmd = "skip" /\ skipping' = {} /\ IsPlaying)
                  => (playing = c.song /\ ~IsPlaying')
       /\ last' = "skip_nothing"
              => (~IsPlaying /\ UNCHANGED <<songs, state_vars, loops, playing,
                                            callbacks, skipping>>)]_vars

\* C15: the two steps of skip, the report and the stop of the player, leave
\* the loop tasks, the loop handle, the queue, the voice handle and the
\* current song as they were; the stop of an active player schedules its
\* completion callback, which is what lets the loop go on to the next song.
C15_SkipOnlyStopsPlayer ==
    [][(skipping' # skipping /\ \E c \in skipping \cup skipping' : c.cmd = "skip")
          => /\ UNCHANGED <<songs, queue, loops, playback_task, voice_client,
                            current_song, announcement_channel_id>>
             /\ (skipping' = {} /\ IsPlaying)
                    => (~IsPlaying' /\ callbacks' = callbacks + 1)]_vars

\* skip has just stopped the player while another song waits in the queue:
\* the loop is alive, waiting for the completion callback that was scheduled.
C15_Witness ==
    /\ last = "skip_sent"
    /\ callbacks = 1 /\ ~IsPlaying
    /\ queue # <<>>
    /\ IsConnected
    /\ playback_task \in Live /\ loops[playback_task].pc = "waiting"

\* C16: clear empties the queue and leaves the current song, the player and
\* its pending callbacks, the loop tasks, the loop handle and the voice
\* handle as they were; on an empty queue it changes nothing at all.
C16_ClearOnlyDrains ==
    [][last' = "clear"
          => /\ queue' = <<>>
             /\ queue = <<>> => queue' = queue
             /\ UNCHANGED <<songs, current_song, playing, callbacks, loops,
                            playback_task, voice_client, next_song_event,
                            prefetch_task, announcement_channel_id,
                            suppress_next_announcement, seeking, skipping>>]_vars

\* clear has just removed two queued songs while a third is playing.
C16_Witness ==
    /\ last = "clear"
    /\ queue = <<>>
    /\ IsPlaying /\ current_song = playing
    /\ playback_task \in Live
    /\ Cardinality(DOMAIN songs \ Range(dequeued)) = 2

\* Songs that left the queue without being taken by the loop.
Cleared == DOMAIN songs \ (Range(queue) \cup Range(dequeued))

\* C17: clearskip leaves the queue empty; when its one report is sent it
\* stops the player; a song removed from the queue never comes back and is
\* never played, announced or reported as failed; and the loop, the player
\* stopped, is never left waiting for a completion that will not come, so
\* that after a clearskip with a loop running the idle timeout stops the loop.
C17_ClearSkip ==
    /\ [][/\ last' = "clearskip" => queue' = <<>>
          /\ \A c \in skipping :
                 (c.cmd = "clearskip" /\ skipping' = {})
                     => (~IsPlaying' /\ callbacks' = StopPlayer
                         /\ UNCHANGED <<queue, loops, started, now_playing, skipped>>)
          /\ Cleared \subseteq Cleared']_vars
    /\ [](/\ Cleared \cap (started \cup now_playing \cup skipped) = {}
          /\ \A t \in Live :
                 loops[t].pc = "waiting"
                     => (IsPlaying \/ callbacks > 0 \/ next_song_event))
    /\ (last = "clearskip" /\ Live # {}) ~> idle_stopped

\* clearskip has just removed two queued songs while a third is playing, and
\* is sending its report.
C17_Witness ==
    /\ last = "clearskip"
    /\ queue = <<>>
    /\ Cardinality(Cleared) = 2
    /\ IsPlaying /\ current_song = playing
    /\ skipping = {[cmd |-> "clearskip", song |-> playing]}
    /\ playback_task \in Live

\* C18: an enqueue that is rejected was made without a connected handle and
\* leaves the songs, the queue, the current song, the handle, the announce
\* target and the loops as they were; every other enqueue call, when it
\* ends, has put its song at the back of the queue and leaves a loop running.
C18_EnqueueOutcome ==
    [][/\ last' = "enqueue_rejected"
              => (~IsConnected
                  /\ UNCHANGED <<songs, queue, current_song, voice_client,
                                 announcement_channel_id, playback_task, loops>>)
       /\ last' = "enqueue"
              => (queue' = Append(queue, NextId) /\ playback_task' \in DOMAIN loops')
       /\ \A c \in connecting :
              (c.kind # "join" /\ c \notin connecting')
                  => (queue' = Append(queue, NextId)
                      /\ playback_task' \in DOMAIN loops')]_vars

\* C19: a step that is an accepted enqueue issued from text channel
\* channel_id, directly on a connected handle or on return from connect(),
\* leaves the announce target equal to channel_id.
C19_AnnounceTargetFollows ==
    [][/\ \A kind \in Kinds, channel_id \in TwoChannels :
              (enqueue(kind, channel_id, TRUE, MaxSongs) /\ last' = "enqueue")
                  => announcement_channel_id' = channel_id
       /\ \A c \in connecting :
              enqueue_connected(c, MaxSongs)
                  => announcement_channel_id' = c.channel_id]_vars

\* C20: the prefetch task and the loop never both await the resolver for the
\* same song.
C20_OneResolverPerSong ==
    \A t \in Live :
        ~(/\ loops[t].pc = "resolving"
          /\ prefetch_task.st = "running"
          /\ prefetch_task.song = loops[t].song)

\* C21: a prefetch task is created only while no prefetch task is running,
\* only in the step of the loop that follows the start of a song (play and
\* the announcement done), and only for the song at the front of the queue,
\* whose origin url is non-empty and whose stream url is not set.
C21_PrefetchLaunch ==
    [][(prefetch_task'.st = "running" /\ prefetch_task' # prefetch_task)
          => /\ prefetch_task.st # "running"
             /\ \E t \in Live : /\ loops[t].pc = "announcing"
                                /\ loops[t].song \in started
                                /\ t \in DOMAIN loops'
                                /\ loops'[t].pc = "waiting"
             /\ queue # <<>>
             /\ prefetch_task'.song = Head(queue)
             /\ songs[Head(queue)].source_url # ""
             /\ songs[Head(queue)].stream_url = "none"]_vars

\* A song was started and announced while the prefetch launched for it
\* earlier is still running: no second prefetch was launched for the
\* unresolved remote song now at the front of the queue.
C21_Witness ==
    /\ prefetch_task.st = "running"
    /\ prefetch_task.song = current_song
    /\ playing = current_song
    /\ \E t \in Live : loops[t].pc = "waiting"
    /\ queue # <<>>
    /\ songs[Head(queue)].source_url # ""
    /\ songs[Head(queue)].stream_url = "none"

\* C22: when the voice handle is absent or not connected, a step of the loop
\* from the dequeue or from the resolver call either blocks on the empty
\* queue, or is the resolver failing, or ends the loop: the loop never goes
\* on to the error report of a failed play().
C22_LostVoiceStopsLoop ==
    [][\A t \in Live :
           (/\ ~IsConnected
            /\ loops[t].pc \in {"get", "resolving"}
            /\ t \in DOMAIN loops'
            /\ loops'[t] # loops[t])
               => (loops'[t].pc = "blocked" \/ loops'[t].err = "resolve")]_vars

C25_LoopSurvivesErrors ==
    [][/\ last' \notin {"crash_handler", "crash_resolved", "crash_errsend"}
       /\ \A t \in Live :
              (loops[t].pc = "errsend" /\ t \in DOMAIN loops' /\ loops'[t] # loops[t])
                  => loops'[t].pc = "get"]_vars

\* C26: current_song is None whenever a loop waits in queue.get() and
\* whenever no loop task is alive.
C26_CurrentSongAbsentWhenIdle ==
    /\ \A t \in Live : loops[t].pc \in {"get", "blocked"} => current_song = None
    /\ Live = {} => current_song = None

\* C29: a position that seek refuses as invalid has more than three parts or
\* a part that is no number; a position that seek accepts has at most three
\* parts, all numbers, and the clone's start offset is the number written:
\* S, 60*MM+SS or 3600*HH+60*MM+SS.
C29_ParserMatchesFormat ==
    [][\A position \in Positions :
           LET n == Len(position)
               numeric == \A i \in 1..n : position[i].num
               exact == \A i \in 1..n : ~position[i].frac
               written == IF n = 1 THEN position[1].val
                          ELSE IF n = 2 THEN 60 * position[1].val + position[2].val
                          ELSE 3600 * position[1].val + 60 * position[2].val
                                   + position[3].val
           IN /\ seek_invalid(position) => (n > 3 \/ ~numeric)
              /\ seek_position(position, MaxSongs)
                     => /\ n <= 3 /\ numeric /\ exact
                        /\ songs'[NextId].ffmpeg_options.ss = written]_vars

\* C27: the stream_url of a song is assigned at most twice, at most once by
\* a prefetch task and at most once by the loop.
C27_AtMostTwoWrites ==
    \A s \in DOMAIN stream_writes :
        /\ Len(stream_writes[s]) <= 2
        /\ Cardinality({i \in DOMAIN stream_writes[s] : stream_writes[s][i] = "P"}) <= 1
        /\ Cardinality({i \in DOMAIN stream_writes[s] : stream_writes[s][i] = "L"}) <= 1

\* A song whose stream_url was assigned by the loop and by a prefetch task.
C27_Witness ==
    \E s \in DOMAIN stream_writes :
        /\ Len(stream_writes[s]) = 2
        /\ s \in started

\* C28: the stream_url a song holds is the one assigned first: a later
\* result does not overwrite it.
C28_FirstWriteStays ==
    \A s \in DOMAIN stream_writes : songs[s].stream_url = stream_writes[s][1]

\* C30: a queue that holds a song has a loop task to consume it, and every
\* song in the queue is eventually dequeued.
C30_QueuedIsDequeued ==
    /\ [](queue # <<>> => Live # {})
    /\ \A s \in 1..MaxSongs :
           (s \in Range(queue)) ~> (s \in Range(dequeued))

\* The queue, current track, voice handle, loop handle and announce target
\* of a GuildState record.
FrameOf(st) ==
    <<st.queue, st.current_song, st.voice_client, st.playback_task,
      st.announcement_channel_id>>

\* C23: a command, a loop step, a completion callback or an idle timeout of
\* one guild leaves the queue, current track, voice handle, loop handle and
\* announce target of every other guild as they were, and turning to another
\* guild finds these five fields as that guild left them and keeps those of
\* the guild served until then.
C23_GuildsIndependent ==
    [][/\ ctx_guild' = ctx_guild =>
              \A h \in Guilds \ {ctx_guild} :
                  FrameOf(others'[h]) = FrameOf(others[h])
       /\ ctx_guild' # ctx_guild =>
              /\ FrameOf(ThisGuild)' = FrameOf(others[ctx_guild'])
              /\ FrameOf(others'[ctx_guild]) = FrameOf(ThisGuild)]_vars

\* Guild 1 has played, and its leave has removed its state, while guild 2 is
\* connected and playing a song.
C23_Witness ==
    /\ ctx_guild = 1
    /\ last = "stop_returned"
    /\ dequeued # <<>>
    /\ ~guild_states
    /\ others[2].guild_states
    /\ others[2].current_song # None
    /\ others[2].playing = others[2].current_song
    /\ others[2].voice_client = "connected"
    /\ others[2].playback_task # None
    /\ others[2].announcement_channel_id # None

\* C31: a track the loop takes from the queue is played or reported as
\* skipped: the step of the loop that dequeues it goes on to resolve it, to
\* play it or to report that it could not be played, also when the voice
\* handle is not connected.
C31_DequeuedPlayedOrSkipped ==
    [][\A t \in Live :
           (loops[t].pc = "get" /\ dequeued' # dequeued) =>
               /\ t \in DOMAIN loops'
               /\ loops'[t].pc \in {"resolving", "announcing", "errsend"}
               /\ loops'[t].song = Head(queue)]_vars

\* C32: the idle timeout stops the loop only while the loop is blocked in
\* queue.get() on an empty queue: the step that runs the timeout teardown
\* ends a loop task that was waiting for a track, never one that resolves,
\* plays or waits for the finish signal, and it finds no track in the queue,
\* so that no enqueued track is lost to the timeout.
C32_TimeoutOnlyWhenIdle ==
    [][last' = "LoopTimeout" =>
           /\ \E t \in Live : loops[t].pc = "blocked" /\ t \notin DOMAIN loops'
           /\ \A t \in Live : loops[t].pc # "blocked" =>
                  (t \in DOMAIN loops' \/ t = playback_task)
           /\ queue = <<>>
           /\ idle_stopped']_vars

\* C33: when a second enqueue is issued while the first is still connecting,
\* at most one connect() is under way and so at most one connection is made,
\* an enqueue that returns from connect() leaves the state with a connected
\* handle, and the second call, when it ends, has put its track at the back
\* of the queue like the first.
C33_InterleavedEnqueues ==
    [][/\ Cardinality(connecting') <= 1
       /\ \A c \in connecting :
              (c \notin connecting' /\ last' = "enqueue") => voice_client' = "connected"
       /\ last' = "connect_raised" => queue' = Append(queue, NextId)]_vars

====
